---- MODULE Spec2Model ----
(***************************************************************************)
(* Model of src/app.py: a Flask application that fetches a GTFS-Realtime   *)
(* feed on every API call, joins it against three static GTFS tables and   *)
(* serves the result as JSON to a Leaflet page that polls /api/vehicles.   *)
(***************************************************************************)
EXTENDS Integers, Sequences, FiniteSets, TLC

(***************************************************************************)
(* Bounds of the model.                                                    *)
(***************************************************************************)
MaxFeedLen == 2
MaxRequests == 2
MaxPolls == 3
MaxPollLen == 2

(***************************************************************************)
(* Python values that occur in the cells of the static tables.  pandas     *)
(* loads an empty cell as the float NaN and a text cell as str; dict.get   *)
(* on a missing key gives None.                                            *)
(***************************************************************************)
PyStr(s) == [t |-> "str", v |-> s]
PyNaN == [t |-> "float", v |-> "nan"]
PyNone == [t |-> "NoneType", v |-> ""]

\* Python truth value: None and "" are false; NaN is a non-zero float.
Truthy(x) ==
  ~ \/ x.t = "NoneType"
    \/ (x.t = "str" /\ x.v = "")

\* a or b
PyOr(a, b) == IF Truthy(a) THEN a ELSE b

\* d.get(k, default) on a dict modelled as a function
DictGet(d, k, default) == IF k \in DOMAIN d THEN d[k] ELSE default

\* dict.get leaves the dict as it is (the setdefault variant would insert).
DictAfterSetdefault(d, k) ==
  IF k \in DOMAIN d THEN d ELSE [x \in DOMAIN d \cup {k} |-> IF x = k THEN <<>> ELSE d[x]]

DictAfterGet(d, k) == d

\* A row of a table: column name -> cell.
Row1(c1, v1) == [c \in {c1} |-> v1]
Row2(c1, v1, c2, v2) == [c \in {c1, c2} |-> IF c = c1 THEN v1 ELSE v2]
EmptyRow == [c \in {} |-> PyNone]
EmptyTable == [k \in {} |-> EmptyRow]

(***************************************************************************)
(* Static GTFS snapshots load_static_gtfs can return.  Every row of a      *)
(* table has the same columns (to_dict(orient="index")); keys are never    *)
(* the empty string, because read_csv turns an empty field into NaN.       *)
(***************************************************************************)
RoutesFull ==
  [k \in {"R1", "R2", "R3", "R4"} |->
     CASE k = "R1" -> Row2("route_short_name", PyStr("10A"), "route_long_name", PyStr("Main Street"))
       [] k = "R2" -> Row2("route_short_name", PyNaN, "route_long_name", PyStr("Crosstown"))
       [] k = "R3" -> Row2("route_short_name", PyStr("7"), "route_long_name", PyNaN)
       [] OTHER    -> Row2("route_short_name", PyNaN, "route_long_name", PyNaN)]

RoutesNoShortColumn ==
  [k \in {"R1", "R2"} |->
     IF k = "R1" THEN Row1("route_long_name", PyStr("Main Street"))
                 ELSE Row1("route_long_name", PyNaN)]

RoutesNoLongColumn ==
  [k \in {"R1", "R2"} |->
     IF k = "R1" THEN Row1("route_short_name", PyStr("10A"))
                 ELSE Row1("route_short_name", PyNaN)]

TripsFull ==
  [k \in {"T1", "T2", "T3", "T4", "T5", "T6"} |->
     CASE k = "T1" -> Row1("route_id", PyStr("R1"))
       [] k = "T2" -> Row1("route_id", PyStr("R2"))
       [] k = "T3" -> Row1("route_id", PyStr("R3"))
       [] k = "T4" -> Row1("route_id", PyStr("R4"))
       [] k = "T5" -> Row1("route_id", PyStr("R9"))
       [] OTHER    -> Row1("route_id", PyNaN)]

TripsNoRouteColumn == [k \in {"T1", "T2"} |-> EmptyRow]

StopsFull ==
  [k \in {"S1", "S2"} |->
     IF k = "S1" THEN Row1("stop_name", PyStr("Main & 1st"))
                 ELSE Row1("stop_name", PyNaN)]

StopsNoNameColumn == [k \in {"S1"} |-> EmptyRow]

EmptyCatalog == [routes |-> EmptyTable, stops |-> EmptyTable, trips |-> EmptyTable]

Catalogs ==
  { [routes |-> RoutesFull,          stops |-> StopsFull,         trips |-> TripsFull],
    [routes |-> RoutesNoShortColumn, stops |-> StopsNoNameColumn, trips |-> TripsFull],
    [routes |-> RoutesNoLongColumn,  stops |-> StopsFull,         trips |-> TripsNoRouteColumn],
    EmptyCatalog }

(***************************************************************************)
(* Decoded feed entities.  has is the set of payload fields for which      *)
(* HasField is true; a payload that is not set reads as its default.       *)
(***************************************************************************)
NoVehicle == [trip_id |-> "", lat |-> 0, lon |-> 0, label |-> ""]
NoTripUpdate == [trip_id |-> "", stop_time_update |-> <<>>]
NoAlert == [header_text |-> <<>>, description_text |-> <<>>, cause |-> 1, effect |-> 8]

Vehicle(t, la, lo, lbl) == [trip_id |-> t, lat |-> la, lon |-> lo, label |-> lbl]
Stu(s, a, d) == [stop_id |-> s, arrival |-> a, departure |-> d]
TripUpdate(t, stus) == [trip_id |-> t, stop_time_update |-> stus]
Alert(h, d, c, f) == [header_text |-> h, description_text |-> d, cause |-> c, effect |-> f]

Entity(i, h, v, tu, a) == [id |-> i, has |-> h, vehicle |-> v, trip_update |-> tu, alert |-> a]

VehicleEntities ==
  { Entity("v1", {"vehicle"}, Vehicle("T1", 389, -768, "Bus 10A"), NoTripUpdate, NoAlert),
    Entity("v2", {"vehicle"}, Vehicle("T2", 390, -770, "Bus 2"), NoTripUpdate, NoAlert),
    Entity("v3", {"vehicle"}, Vehicle("T3", 391, -771, ""), NoTripUpdate, NoAlert),
    Entity("v4", {"vehicle"}, Vehicle("T4", 0, 0, "Bus 4"), NoTripUpdate, NoAlert),
    Entity("v5", {"vehicle"}, Vehicle("T5", 392, -772, "Bus 5"), NoTripUpdate, NoAlert),
    Entity("v6", {"vehicle"}, Vehicle("T6", 393, -773, "Bus 6"), NoTripUpdate, NoAlert),
    Entity("v7", {"vehicle"}, Vehicle("T9", 394, -774, "Bus 7"), NoTripUpdate, NoAlert),
    Entity("v8", {"vehicle"}, NoVehicle, NoTripUpdate, NoAlert) }

TripUpdateEntities ==
  { Entity("t1", {"trip_update"}, NoVehicle, TripUpdate("T1", <<>>), NoAlert),
    Entity("t2", {"trip_update"}, NoVehicle,
           TripUpdate("T2", <<Stu("S1", 100, 110), Stu("S9", 0, 0)>>), NoAlert),
    Entity("t3", {"trip_update"}, NoVehicle,
           TripUpdate("T5", <<Stu("S2", 200, 0), Stu("S1", 0, 210)>>), NoAlert),
    Entity("t4", {"trip_update"}, NoVehicle, TripUpdate("T9", <<Stu("", 0, 0)>>), NoAlert),
    Entity("t5", {"trip_update"}, NoVehicle, NoTripUpdate, NoAlert) }

AlertEntities ==
  { Entity("a1", {"alert"}, NoVehicle, NoTripUpdate, NoAlert),
    Entity("a2", {"alert"}, NoVehicle, NoTripUpdate, Alert(<<"Detour">>, <<>>, 9, 4)),
    Entity("a3", {"alert"}, NoVehicle, NoTripUpdate, Alert(<<>>, <<"Stop closed">>, 1, 8)),
    Entity("a4", {"alert"}, NoVehicle, NoTripUpdate,
           Alert(<<"Delay", "Retraso">>, <<"Expect delays", "Demoras">>, 6, 2)) }

OtherEntities ==
  { Entity("x1", {}, NoVehicle, NoTripUpdate, NoAlert),
    Entity("m1", {"vehicle", "alert"}, Vehicle("T1", 395, -775, "Bus M"), NoTripUpdate,
           Alert(<<"Crowded">>, <<"Standing room">>, 1, 7)) }

Entities == VehicleEntities \cup TripUpdateEntities \cup AlertEntities \cup OtherEntities

SeqsUpTo(S, n) == UNION { [1..k -> S] : k \in 0..n }

Feeds == SeqsUpTo(Entities, MaxFeedLen)

\* The feeds used when several requests run at once.
ConcurrentFeeds ==
  LET E(i) == CHOOSE e \in Entities : e.id = i
  IN { <<>>, <<E("m1")>>, <<E("v2"), E("t2")>> }

(***************************************************************************)
(* What the upstream server can answer to requests.get(FEED_URL).          *)
(***************************************************************************)
\* resp.content: bytes that encode a FeedMessage, or bytes that do not.
Content(f) == [wellformed |-> TRUE, entity |-> f]
Malformed == [wellformed |-> FALSE, entity |-> <<>>]
NetworkFailure == [status |-> 0, content |-> Malformed]

\* A 200 carries any body; a 304 carries none or an error page; a 404 or
\* a 503 carries an error page.
UpstreamAnswers(feeds) ==
  { [status |-> 200, content |-> b] : b \in { Content(f) : f \in feeds } \cup {Malformed} }
    \cup { [status |-> 304, content |-> b] : b \in {Content(<<>>), Malformed} }
    \cup { [status |-> st, content |-> Malformed] : st \in {404, 503} }
    \cup { NetworkFailure }

\* requests.get raises on a connection failure
GetRaises(ans) == ans = NetworkFailure

\* Response.raise_for_status raises for 4xx and 5xx
raise_for_status(ans) == 400 <= ans.status /\ ans.status < 600

\* FeedMessage.ParseFromString raises DecodeError on malformed bytes
ParseRaises(ans) == ~ ans.content.wellformed

FetchRaises(ans) == GetRaises(ans) \/ raise_for_status(ans) \/ ParseRaises(ans)


(***************************************************************************)
(* State.  The three lookup tables are module globals; everything else of  *)
(* the server is local to one request.  The client state is that of the    *)
(* page's script.                                                          *)
(***************************************************************************)
VARIABLES
  ROUTE_LOOKUP, STOP_LOOKUP, TRIP_LOOKUP, \* the globals set at import time
  startup,      \* what load_static_gtfs returned (history)
  pc,           \* per request: "idle", "called", "loop", "done"
  endpoint,     \* per request: the route it was dispatched to
  upstream,     \* per request: what the upstream answered (history)
  gets,         \* per request: number of requests.get calls made (history)
  feed,         \* per request: the local feed
  idx,          \* per request: position of the for loop in feed.entity
  out,          \* per request: the local list vehicles / trips / alerts
  response      \* per request: what Flask sent back

\* The state of the page's script.
VARIABLES
  vehicleMarkers, \* own properties of the object: vehicle id -> marker object
  latlng,         \* marker object -> the position Leaflet holds for it
  onMap,          \* marker objects added to the map
  issued,         \* number of calls of updateVehicles so far
  inflight,       \* calls of updateVehicles suspended at an await
  lastPoll,       \* the call that ran last and how it ended (history)
  failed          \* number of calls that got an error status (history)

clientVars == <<vehicleMarkers, latlng, onMap, issued, inflight, lastPoll, failed>>

catalogVars == <<ROUTE_LOOKUP, STOP_LOOKUP, TRIP_LOOKUP, startup>>
requestVars == <<pc, endpoint, upstream, gets, feed, idx, out, response>>
serverVars == <<catalogVars, requestVars>>

Requests == 1..MaxRequests
Endpoints == {"/api/vehicles", "/api/trip_updates", "/api/alerts"}

NoResponse == [status |-> 0, mimetype |-> "", json |-> <<>>]
NoAnswer == [status |-> -1, content |-> Malformed]

\* An exception that leaves the view function: Flask answers 500 with an
\* HTML error page.
InternalServerError == [status |-> 500, mimetype |-> "text/html", json |-> <<>>]

\* jsonify(list)
jsonify(list) == [status |-> 200, mimetype |-> "application/json", json |-> list]

(***************************************************************************)
(* The joins of the view functions.                                        *)
(***************************************************************************)
\* TRIP_LOOKUP.get(trip_id, {}).get("route_id", "")
RouteIdOf(trips, trip_id) ==
  DictGet(DictGet(trips, trip_id, EmptyRow), "route_id", PyStr(""))

\* route_id in ROUTE_LOOKUP (the keys are the str route ids of routes.txt)
InRoutes(routes, route_id) == route_id.t = "str" /\ route_id.v \in DOMAIN routes

\* A join that shows the raw route id when the route is unknown.
RouteNameFallsBackToId(routes, route_id) ==
  IF InRoutes(routes, route_id)
  THEN LET r == routes[route_id.v]
       IN PyOr(PyOr(DictGet(r, "route_short_name", PyNone),
                    DictGet(r, "route_long_name", PyNone)),
               PyStr(""))
  ELSE route_id

\* route_name = ""; if route_id in ROUTE_LOOKUP: short or long or ""
RouteName(routes, route_id) ==
  IF InRoutes(routes, route_id)
  THEN LET r == routes[route_id.v]
       IN PyOr(PyOr(DictGet(r, "route_short_name", PyNone),
                    DictGet(r, "route_long_name", PyNone)),
               PyStr(""))
  ELSE PyStr("")

\* STOP_LOOKUP.get(stu.stop_id, {}).get("stop_name", "")
StopName(stops, stop_id) ==
  DictGet(DictGet(stops, stop_id, EmptyRow), "stop_name", PyStr(""))

\* the dict appended for a vehicle entity
VehicleRecord(e, routes, trips) ==
  LET v == e.vehicle
      trip_id == v.trip_id
      route_id == RouteIdOf(trips, trip_id)
  IN [id |-> e.id, lat |-> v.lat, lon |-> v.lon,
      route_name |-> RouteName(routes, route_id),
      trip_id |-> trip_id, vehicle_label |-> v.label]

\* An inner loop that leaves out the stops the stop table does not know.
StopUpdatesKnownOnly(stus, stops) ==
  LET known == SelectSeq(stus, LAMBDA u : u.stop_id \in DOMAIN stops)
  IN [k \in 1..Len(known) |->
        [stop_id |-> known[k].stop_id,
         stop_name |-> StopName(stops, known[k].stop_id),
         arrival |-> known[k].arrival,
         departure |-> known[k].departure]]

\* the inner loop over tu.stop_time_update
StopUpdates(stus, stops) ==
  [k \in 1..Len(stus) |->
     [stop_id |-> stus[k].stop_id,
      stop_name |-> StopName(stops, stus[k].stop_id),
      arrival |-> stus[k].arrival,
      departure |-> stus[k].departure]]

\* the dict appended for a trip_update entity
TripUpdateRecord(e, routes, stops, trips) ==
  LET tu == e.trip_update
      trip_id == tu.trip_id
      route_id == RouteIdOf(trips, trip_id)
  IN [id |-> e.id, trip_id |-> trip_id,
      route_name |-> RouteName(routes, route_id),
      stop_updates |-> StopUpdates(tu.stop_time_update, stops)]

\* translation[-1].text if translation else ""
LastText(translation) == IF Len(translation) > 0 THEN translation[Len(translation)] ELSE ""

\* translation[0].text if translation else ""
FirstText(translation) == IF Len(translation) > 0 THEN translation[1] ELSE ""

\* the dict appended for an alert entity
AlertRecord(e) ==
  LET a == e.alert
  IN [id |-> e.id,
      header |-> FirstText(a.header_text),
      description |-> FirstText(a.description_text),
      cause |-> a.cause, effect |-> a.effect]

\* A test that also drops a vehicle that reports no trip.
HasFieldAndTrip(e, name) ==
  name \in e.has /\ ~ (name = "vehicle" /\ e.vehicle.trip_id = "")

\* e.HasField(name)
HasField(e, name) == name \in e.has

\* The stop table after the .get calls of the inner loop.
RECURSIVE StopsAfterGets(_, _)
StopsAfterGets(stops, stus) ==
  IF stus = <<>> THEN stops
  ELSE StopsAfterGets(DictAfterGet(stops, Head(stus).stop_id), Tail(stus))

(***************************************************************************)
(* load_static_gtfs and the module-level assignment: the state after       *)
(* import.                                                                 *)
(***************************************************************************)
load_static_gtfs(snapshots) ==
  \E c \in snapshots :
    /\ ROUTE_LOOKUP = c.routes
    /\ STOP_LOOKUP = c.stops
    /\ TRIP_LOOKUP = c.trips
    /\ startup = c

ServerInit(snapshots) ==
  /\ load_static_gtfs(snapshots)
  /\ pc = [r \in Requests |-> "idle"]
  /\ endpoint = [r \in Requests |-> ""]
  /\ upstream = [r \in Requests |-> NoAnswer]
  /\ gets = [r \in Requests |-> 0]
  /\ feed = [r \in Requests |-> <<>>]
  /\ idx = [r \in Requests |-> 0]
  /\ out = [r \in Requests |-> <<>>]
  /\ response = [r \in Requests |-> NoResponse]

(***************************************************************************)
(* Flask dispatches an incoming GET to its view function.                  *)
(***************************************************************************)
route(r) ==
  /\ pc[r] = "idle"
  /\ \E ep \in Endpoints : endpoint' = [endpoint EXCEPT ![r] = ep]
  /\ pc' = [pc EXCEPT ![r] = "called"]
  /\ UNCHANGED <<catalogVars, upstream, gets, feed, idx, out, response, clientVars>>

\* A fetch that tries a second requests.get when the first one fails.
fetch_gtfs_rt_retry(r, feeds) ==
  /\ pc[r] = "called"
  /\ \E ans \in UpstreamAnswers(feeds) :
       /\ upstream' = [upstream EXCEPT ![r] = ans]
       /\ gets' = [gets EXCEPT ![r] = @ + (IF FetchRaises(ans) THEN 2 ELSE 1)]
       /\ IF FetchRaises(ans)
          THEN /\ response' = [response EXCEPT ![r] = InternalServerError]
               /\ pc' = [pc EXCEPT ![r] = "done"]
               /\ UNCHANGED <<feed, idx, out>>
          ELSE /\ feed' = [feed EXCEPT ![r] = ans.content.entity]
               /\ idx' = [idx EXCEPT ![r] = 1]
               /\ out' = [out EXCEPT ![r] = <<>>]
               /\ pc' = [pc EXCEPT ![r] = "loop"]
               /\ UNCHANGED response
  /\ UNCHANGED <<catalogVars, endpoint, clientVars>>

(***************************************************************************)
(* feed = fetch_gtfs_rt(): one requests.get, raise_for_status,             *)
(* ParseFromString.  An exception leaves the view function.                *)
(***************************************************************************)
fetch_gtfs_rt(r, feeds) ==
  /\ pc[r] = "called"
  /\ \E ans \in UpstreamAnswers(feeds) :
       /\ upstream' = [upstream EXCEPT ![r] = ans]
       /\ gets' = [gets EXCEPT ![r] = @ + 1]
       /\ IF FetchRaises(ans)
          THEN /\ response' = [response EXCEPT ![r] = InternalServerError]
               /\ pc' = [pc EXCEPT ![r] = "done"]
               /\ UNCHANGED <<feed, idx, out>>
          ELSE /\ feed' = [feed EXCEPT ![r] = ans.content.entity]
               /\ idx' = [idx EXCEPT ![r] = 1]
               /\ out' = [out EXCEPT ![r] = <<>>]
               /\ pc' = [pc EXCEPT ![r] = "loop"]
               /\ UNCHANGED response
  /\ UNCHANGED <<catalogVars, endpoint, clientVars>>

\* return jsonify(list) once the for loop is exhausted
Return(r) ==
  /\ response' = [response EXCEPT ![r] = jsonify(out[r])]
  /\ pc' = [pc EXCEPT ![r] = "done"]
  /\ UNCHANGED <<catalogVars, idx, out>>

(***************************************************************************)
(* One iteration of the for loop of each view function, or its return.     *)
(***************************************************************************)
api_vehicles(r) ==
  /\ pc[r] = "loop" /\ endpoint[r] = "/api/vehicles"
  /\ IF idx[r] <= Len(feed[r])
     THEN LET e == feed[r][idx[r]]
          IN /\ idx' = [idx EXCEPT ![r] = @ + 1]
             /\ IF HasField(e, "vehicle")
                THEN /\ out' = [out EXCEPT ![r] =
                                  Append(@, VehicleRecord(e, ROUTE_LOOKUP, TRIP_LOOKUP))]
                     /\ TRIP_LOOKUP' = DictAfterGet(TRIP_LOOKUP, e.vehicle.trip_id)
                ELSE UNCHANGED <<out, TRIP_LOOKUP>>
             /\ UNCHANGED <<ROUTE_LOOKUP, STOP_LOOKUP, startup, pc, response>>
     ELSE Return(r)
  /\ UNCHANGED <<endpoint, upstream, gets, feed, clientVars>>

api_trip_updates(r) ==
  /\ pc[r] = "loop" /\ endpoint[r] = "/api/trip_updates"
  /\ IF idx[r] <= Len(feed[r])
     THEN LET e == feed[r][idx[r]]
          IN /\ idx' = [idx EXCEPT ![r] = @ + 1]
             /\ IF HasField(e, "trip_update")
                THEN /\ out' = [out EXCEPT ![r] =
                                  Append(@, TripUpdateRecord(e, ROUTE_LOOKUP, STOP_LOOKUP,
                                                             TRIP_LOOKUP))]
                     /\ TRIP_LOOKUP' = DictAfterGet(TRIP_LOOKUP, e.trip_update.trip_id)
                     /\ STOP_LOOKUP' = StopsAfterGets(STOP_LOOKUP,
                                                      e.trip_update.stop_time_update)
                ELSE UNCHANGED <<out, TRIP_LOOKUP, STOP_LOOKUP>>
             /\ UNCHANGED <<ROUTE_LOOKUP, startup, pc, response>>
     ELSE Return(r)
  /\ UNCHANGED <<endpoint, upstream, gets, feed, clientVars>>

api_alerts(r) ==
  /\ pc[r] = "loop" /\ endpoint[r] = "/api/alerts"
  /\ IF idx[r] <= Len(feed[r])
     THEN LET e == feed[r][idx[r]]
          IN /\ idx' = [idx EXCEPT ![r] = @ + 1]
             /\ IF HasField(e, "alert")
                THEN out' = [out EXCEPT ![r] = Append(@, AlertRecord(e))]
                ELSE UNCHANGED out
             /\ UNCHANGED <<catalogVars, pc, response>>
     ELSE Return(r)
  /\ UNCHANGED <<endpoint, upstream, gets, feed, clientVars>>

(***************************************************************************)
(* The page's script.  vehicleMarkers is a plain object: reading           *)
(* vehicleMarkers[id] finds own properties and, failing that, the          *)
(* properties every object inherits from Object.prototype.                 *)
(***************************************************************************)
\* Property names inherited from Object.prototype (those the model uses).
ObjectPrototype == {"constructor", "toString"}

VehicleIds == {"v1", "v2", "constructor"}
Positions == { <<389, -768>>, <<390, -770>> }

\* One element of the array /api/vehicles answers.
PollRecords ==
  { [id |-> i, lat |-> p[1], lon |-> p[2]] : i \in VehicleIds, p \in Positions }

\* What the page's fetch can resolve to: the view's JSON array, or the
\* HTML error page of a failed request.
PollResponses ==
  { jsonify(d) : d \in SeqsUpTo(PollRecords, MaxPollLen) } \cup { InternalServerError }

\* await resp.json() throws unless the body is JSON
JsonThrows(resp) == resp.mimetype # "application/json"

\* if (vehicleMarkers[id]): an own marker or an inherited function, both truthy
LookupTruthy(markers, id) == id \in DOMAIN markers \/ id \in ObjectPrototype

\* vehicleMarkers[id].setLatLng is a function only on a marker
SetLatLngThrows(markers, id) == id \notin DOMAIN markers

MapState(m, l, o) == [markers |-> m, latlng |-> l, onMap |-> o, threw |-> FALSE]

\* the body of the forEach callback for one record v
ForEachBody(st, v) ==
  IF LookupTruthy(st.markers, v.id)
  THEN IF SetLatLngThrows(st.markers, v.id)
       THEN [st EXCEPT !.threw = TRUE]
       ELSE [st EXCEPT !.latlng[st.markers[v.id]] = <<v.lat, v.lon>>]
  ELSE LET marker == Cardinality(DOMAIN st.latlng) + 1
       IN [markers |-> [i \in DOMAIN st.markers \cup {v.id} |->
                          IF i = v.id THEN marker ELSE st.markers[i]],
           latlng  |-> [m \in DOMAIN st.latlng \cup {marker} |->
                          IF m = marker THEN <<v.lat, v.lon>> ELSE st.latlng[m]],
           onMap   |-> st.onMap \cup {marker},
           threw   |-> FALSE]

\* data.forEach(...): in array order; an exception ends the iteration
RECURSIVE ForEach(_, _)
ForEach(st, data) ==
  IF data = <<>> \/ st.threw THEN st
  ELSE ForEach(ForEachBody(st, Head(data)), Tail(data))

NoPoll == [kind |-> "none", resp |-> NoResponse]

ClientInit ==
  /\ vehicleMarkers = [i \in {} |-> 0]
  /\ latlng = [m \in {} |-> <<0, 0>>]
  /\ onMap = {}
  /\ issued = 0
  /\ inflight = 0
  /\ lastPoll = NoPoll
  /\ failed = 0

(***************************************************************************)
(* updateVehicles() up to its first await: the initial call or a tick of   *)
(* setInterval.  Nothing ever clears the interval.                         *)
(***************************************************************************)
updateVehicles_call ==
  /\ issued < MaxPolls
  /\ issued' = issued + 1
  /\ inflight' = inflight + 1
  /\ lastPoll' = [kind |-> "call", resp |-> NoResponse]
  /\ UNCHANGED <<vehicleMarkers, latlng, onMap, failed, serverVars>>

\* A continuation that empties the map when the answer is an error.
updateVehicles_resume_clearing ==
  /\ inflight > 0
  /\ inflight' = inflight - 1
  /\ \E resp \in PollResponses :
       /\ failed' = IF resp.status >= 500 THEN failed + 1 ELSE failed
       /\ IF JsonThrows(resp)
          THEN /\ lastPoll' = [kind |-> "rejected", resp |-> resp]
               /\ vehicleMarkers' = [i \in {} |-> 0]
               /\ onMap' = {}
               /\ UNCHANGED latlng
          ELSE LET st == ForEach(MapState(vehicleMarkers, latlng, onMap), resp.json)
               IN /\ vehicleMarkers' = st.markers
                  /\ latlng' = st.latlng
                  /\ onMap' = st.onMap
                  /\ lastPoll' = [kind |-> IF st.threw THEN "rejected" ELSE "fulfilled",
                                  resp |-> resp]
  /\ UNCHANGED <<issued, serverVars>>

(***************************************************************************)
(* The rest of updateVehicles() once the response is there: resp.json()    *)
(* and the forEach, run to the end without interruption.                   *)
(***************************************************************************)
updateVehicles_resume ==
  /\ inflight > 0
  /\ inflight' = inflight - 1
  /\ \E resp \in PollResponses :
       /\ failed' = IF resp.status >= 500 THEN failed + 1 ELSE failed
       /\ IF JsonThrows(resp)
          THEN /\ lastPoll' = [kind |-> "rejected", resp |-> resp]
               /\ UNCHANGED <<vehicleMarkers, latlng, onMap>>
          ELSE LET st == ForEach(MapState(vehicleMarkers, latlng, onMap), resp.json)
               IN /\ vehicleMarkers' = st.markers
                  /\ latlng' = st.latlng
                  /\ onMap' = st.onMap
                  /\ lastPoll' = [kind |-> IF st.threw THEN "rejected" ELSE "fulfilled",
                                  resp |-> resp]
  /\ UNCHANGED <<issued, serverVars>>

Init == ServerInit(Catalogs) /\ ClientInit

\* Several requests in flight at once.
Next ==
  \E r \in Requests :
    \/ route(r)
    \/ fetch_gtfs_rt(r, ConcurrentFeeds)
    \/ api_vehicles(r)
    \/ api_trip_updates(r)
    \/ api_alerts(r)

vars == <<serverVars, clientVars>>

Spec == Init /\ [][Next]_vars

\* One request over every feed of the model.
EnrichNext ==
  \/ route(1)
  \/ fetch_gtfs_rt(1, Feeds)
  \/ api_vehicles(1)
  \/ api_trip_updates(1)
  \/ api_alerts(1)

EnrichSpec == Init /\ [][EnrichNext]_vars

\* The page alone, fed with the answers /api/vehicles can give; it reads
\* none of the tables.
PageInit == ServerInit({EmptyCatalog}) /\ ClientInit

ClientNext ==
  \/ updateVehicles_call
  \/ updateVehicles_resume

ClientSpec == PageInit /\ [][ClientNext]_vars

(***************************************************************************)
(* Properties.                                                             *)
(***************************************************************************)
Done(r) == pc[r] = "done"
Served(r) == Done(r) /\ response[r].status = 200

PayloadName(ep) ==
  CASE ep = "/api/vehicles" -> "vehicle"
    [] ep = "/api/trip_updates" -> "trip_update"
    [] OTHER -> "alert"

\* The entities of a feed that carry the payload, in feed order.
Carrying(f, name) == SelectSeq(f, LAMBDA e : name \in e.has)

Ids(records) == [k \in 1..Len(records) |-> records[k].id]

\* The upstream fetch failed in the sense of the specification: no answer,
\* an answer outside 2xx, or a body that does not decode.
UpstreamFailed(ans) ==
  \/ ans = NetworkFailure
  \/ ~ (200 <= ans.status /\ ans.status < 300)
  \/ ~ ans.content.wellformed

IsJsonArray(resp) == resp.status = 200 /\ resp.mimetype = "application/json"

\* C1: for each endpoint, a request answers with a server-error status if
\* and only if its own upstream fetch failed (network failure, non-2xx
\* status, decode failure); on failure it returns no JSON array, on success
\* it returns a JSON array.
C1_ServerErrorIffFetchFailed ==
  \A r \in Requests :
    Done(r) =>
      /\ (response[r].status >= 500) <=> UpstreamFailed(upstream[r])
      /\ UpstreamFailed(upstream[r]) =>
           (response[r].mimetype # "application/json" /\ response[r].json = <<>>)
      /\ ~ UpstreamFailed(upstream[r]) => IsJsonArray(response[r])

\* The same with failure read as: requests.get raised, the status is 4xx or
\* 5xx, or the body does not decode.
ServerErrorIffFetchRaised ==
  \A r \in Requests :
    Done(r) =>
      LET raised == \/ upstream[r] = NetworkFailure
                    \/ upstream[r].status \in 400..599
                    \/ ~ upstream[r].content.wellformed
      IN /\ (response[r].status >= 500) <=> raised
         /\ raised => (response[r].mimetype # "application/json" /\ response[r].json = <<>>)
         /\ ~ raised => IsJsonArray(response[r])

\* The trip id an entity reports under the payload of the endpoint.
TripIdOf(e, name) ==
  IF name = "vehicle" THEN e.vehicle.trip_id ELSE e.trip_update.trip_id

\* The trip is not in the trip table, or its route is not in the route table.
LookupMiss(trip_id) ==
  \/ trip_id \notin DOMAIN TRIP_LOOKUP
  \/ LET row == TRIP_LOOKUP[trip_id]
     IN \/ "route_id" \notin DOMAIN row
        \/ row["route_id"].t # "str"
        \/ row["route_id"].v \notin DOMAIN ROUTE_LOOKUP

JoinEndpoints == {"/api/vehicles", "/api/trip_updates"}

\* C3: a vehicle or trip-update entity whose trip_id is not in the trip
\* table, or whose trip's route_id is not in the route table, still yields
\* its record, with route_name "", and the handler does not raise: only a
\* failed fetch ends a request with an error.
C3_LookupMissGivesEmptyRouteName ==
  \A r \in Requests :
    /\ (Done(r) /\ response[r].status # 200) => FetchRaises(upstream[r])
    /\ (Served(r) /\ endpoint[r] \in JoinEndpoints) =>
         LET name == PayloadName(endpoint[r])
             ents == Carrying(feed[r], name)
             recs == response[r].json
         IN /\ Len(recs) = Len(ents)
            /\ \A k \in 1..Len(ents) :
                 LookupMiss(TripIdOf(ents[k], name)) => recs[k].route_name = PyStr("")

\* A served vehicles request under non-empty tables with one record whose
\* trip is unknown and one whose trip is known but whose route is not.
C3_Witness ==
  \E r \in Requests :
    /\ Served(r) /\ endpoint[r] = "/api/vehicles"
    /\ DOMAIN ROUTE_LOOKUP # {} /\ DOMAIN TRIP_LOOKUP # {}
    /\ \E k, j \in 1..Len(response[r].json) :
         LET a == response[r].json[k]
             b == response[r].json[j]
         IN /\ a.trip_id \notin DOMAIN TRIP_LOOKUP /\ a.trip_id # ""
            /\ a.route_name = PyStr("")
            /\ b.trip_id \in DOMAIN TRIP_LOOKUP
            /\ "route_id" \in DOMAIN TRIP_LOOKUP[b.trip_id]
            /\ TRIP_LOOKUP[b.trip_id]["route_id"] = PyStr("R9")
            /\ b.route_name = PyStr("")

\* A name is present in a loaded row when its column exists and the cell is
\* not empty.
Present(row, col) == col \in DOMAIN row /\ row[col] # PyNaN

\* The display name the specification gives a route.
DisplayNameHolds(row, route_name) ==
  /\ (Present(row, "route_short_name") /\ ~ Present(row, "route_long_name"))
       => route_name = row["route_short_name"]
  /\ (~ Present(row, "route_short_name") /\ Present(row, "route_long_name"))
       => route_name = row["route_long_name"]
  /\ (Present(row, "route_short_name") /\ Present(row, "route_long_name"))
       => route_name = row["route_short_name"]

\* C4: for every route in the catalog the display name is the short_name
\* when only the short_name is present, the long_name when only the
\* long_name is present, and the short_name when both are present.
C4_DisplayNamePrecedence ==
  \A r \in Requests :
    (Served(r) /\ endpoint[r] \in JoinEndpoints) =>
      LET name == PayloadName(endpoint[r])
          ents == Carrying(feed[r], name)
          recs == response[r].json
      IN \A k \in 1..Len(ents) :
           (k <= Len(recs) /\ ~ LookupMiss(TripIdOf(ents[k], name))) =>
             DisplayNameHolds(
               ROUTE_LOOKUP[TRIP_LOOKUP[TripIdOf(ents[k], name)]["route_id"].v],
               recs[k].route_name)

\* The same for the rows in which the column of the absent name is missing
\* from the file, and for the rows with both names.
DisplayNamePrecedenceByColumn ==
  \A r \in Requests :
    (Served(r) /\ endpoint[r] \in JoinEndpoints) =>
      LET name == PayloadName(endpoint[r])
          ents == Carrying(feed[r], name)
          recs == response[r].json
      IN \A k \in 1..Len(ents) :
           (k <= Len(recs) /\ ~ LookupMiss(TripIdOf(ents[k], name))) =>
             LET row == ROUTE_LOOKUP[TRIP_LOOKUP[TripIdOf(ents[k], name)]["route_id"].v]
             IN (\A col \in DOMAIN row : row[col] # PyNaN \/ col = "route_long_name")
                  => DisplayNameHolds(row, recs[k].route_name)

\* C5: each output holds exactly one record per entity that carries the
\* payload of its endpoint, in feed order and with the entity's id; an
\* entity with none of the payloads is in no output; no entity with the
\* payload is skipped.
C5_OneRecordPerCarryingEntity ==
  \A r \in Requests :
    Served(r) =>
      Ids(response[r].json) = Ids(Carrying(feed[r], PayloadName(endpoint[r])))

\* A served request whose feed holds an entity with no payload and, behind
\* it, a vehicle with every field at its default.
C5_Witness ==
  \E r \in Requests :
    /\ Served(r) /\ endpoint[r] = "/api/vehicles"
    /\ Len(feed[r]) = 2
    /\ feed[r][1].has = {}
    /\ feed[r][2].has = {"vehicle"} /\ feed[r][2].vehicle = NoVehicle
    /\ Ids(response[r].json) = <<feed[r][2].id>>

RECURSIVE SumGets(_)
SumGets(R) ==
  IF R = {} THEN 0
  ELSE LET r == CHOOSE x \in R : TRUE IN gets[r] + SumGets(R \ {r})

Fetched(r) == pc[r] \in {"loop", "done"}

\* C6: every API request performs exactly one upstream fetch, successful or
\* not, and works on the feed of that fetch: N requests make N fetches.
C6_OneFetchPerRequest ==
  /\ \A r \in Requests :
       /\ gets[r] = IF Fetched(r) THEN 1 ELSE 0
       /\ (pc[r] = "loop" \/ Served(r)) => feed[r] = upstream[r].content.entity
  /\ SumGets(Requests) = Cardinality({ r \in Requests : Fetched(r) })

\* All requests are answered, one of them after a failed fetch and one
\* after a successful one.
C6_Witness ==
  /\ \A r \in Requests : Done(r)
  /\ \E r \in Requests : response[r].status = 500
  /\ \E r \in Requests : Served(r) /\ response[r].json # <<>>
  /\ SumGets(Requests) = MaxRequests

\* What a view function returns for a feed when it runs alone against the
\* catalog c.
RECURSIVE ViewOutput(_, _, _)
ViewOutput(ep, f, c) ==
  IF f = <<>> THEN <<>>
  ELSE LET e == Head(f)
           rest == ViewOutput(ep, Tail(f), c)
       IN IF PayloadName(ep) \notin e.has THEN rest
          ELSE CASE ep = "/api/vehicles" ->
                      <<VehicleRecord(e, c.routes, c.trips)>> \o rest
                 [] ep = "/api/trip_updates" ->
                      <<TripUpdateRecord(e, c.routes, c.stops, c.trips)>> \o rest
                 [] OTHER -> <<AlertRecord(e)>> \o rest

\* C7: under any interleaving of requests the three tables keep their
\* startup value, each response is what the request would give alone on
\* the feed it fetched and the startup catalog, and the same feed on the
\* same endpoint gives the same response.
C7_CatalogReadOnlyResponsesIndependent ==
  /\ ROUTE_LOOKUP = startup.routes
  /\ STOP_LOOKUP = startup.stops
  /\ TRIP_LOOKUP = startup.trips
  /\ \A r \in Requests :
       Served(r) =>
         response[r] = jsonify(ViewOutput(endpoint[r], upstream[r].content.entity, startup))
  /\ \A r1, r2 \in Requests :
       (Served(r1) /\ Served(r2) /\ endpoint[r1] = endpoint[r2]
          /\ upstream[r1].content = upstream[r2].content)
         => response[r1] = response[r2]

\* Two requests served side by side from non-empty tables: one joined a
\* feed of two entities, the other a different feed.
C7_Witness ==
  \E r1, r2 \in Requests :
    /\ r1 # r2 /\ Served(r1) /\ Served(r2)
    /\ DOMAIN TRIP_LOOKUP # {}
    /\ Len(feed[r1]) = 2 /\ response[r1].json # <<>>
    /\ feed[r2] # feed[r1] /\ response[r2].json # <<>>

\* The first element of a translation list, "" for an empty list.
FirstOrEmpty(translation) == IF translation = <<>> THEN "" ELSE translation[1]

\* C8: every alert entity is in the output; its header is the text of its
\* first header translation and its description the text of its first
\* description translation, each "" on its own when its list is empty.
C8_AlertFirstTranslationOrEmpty ==
  \A r \in Requests :
    (Served(r) /\ endpoint[r] = "/api/alerts") =>
      LET ents == Carrying(feed[r], "alert")
          recs == response[r].json
      IN /\ Len(recs) = Len(ents)
         /\ \A k \in 1..Len(ents) :
              /\ recs[k].id = ents[k].id
              /\ recs[k].header = FirstOrEmpty(ents[k].alert.header_text)
              /\ recs[k].description = FirstOrEmpty(ents[k].alert.description_text)

\* A served alerts request with an alert without any translation and an
\* alert with two translations of each text.
C8_Witness ==
  \E r \in Requests :
    /\ Served(r) /\ endpoint[r] = "/api/alerts"
    /\ \E k, j \in 1..Len(response[r].json) :
         /\ feed[r][k].alert.header_text = <<>>
         /\ feed[r][k].alert.description_text = <<>>
         /\ response[r].json[k].header = "" /\ response[r].json[k].description = ""
         /\ Len(feed[r][j].alert.header_text) = 2
         /\ response[r].json[j].header = "Delay"
         /\ response[r].json[j].description = "Expect delays"

\* C9: every trip-update record has stop_updates with one element per
\* stop_time_update of its entity, in order, each with the raw stop_id and
\* the stop_name of the stop table, "" when the stop_id is not in the
\* table; no stop_time_update gives stop_updates = <<>>.
C9_StopUpdatesMirrorStopTimeUpdates ==
  \A r \in Requests :
    (Served(r) /\ endpoint[r] = "/api/trip_updates") =>
      LET ents == Carrying(feed[r], "trip_update")
          recs == response[r].json
      IN /\ Len(recs) = Len(ents)
         /\ \A k \in 1..Len(ents) :
              LET stus == ents[k].trip_update.stop_time_update
                  sus == recs[k].stop_updates
              IN /\ Len(sus) = Len(stus)
                 /\ \A j \in 1..Len(stus) :
                      /\ sus[j].stop_id = stus[j].stop_id
                      /\ stus[j].stop_id \notin DOMAIN STOP_LOOKUP
                           => sus[j].stop_name = PyStr("")
                      /\ (stus[j].stop_id \in DOMAIN STOP_LOOKUP
                            /\ "stop_name" \in DOMAIN STOP_LOOKUP[stus[j].stop_id])
                           => sus[j].stop_name = STOP_LOOKUP[stus[j].stop_id]["stop_name"]

\* A served trip-updates request with a record without stop updates and a
\* record with a named stop followed by a stop the table does not know.
C9_Witness ==
  \E r \in Requests :
    /\ Served(r) /\ endpoint[r] = "/api/trip_updates"
    /\ \E k, j \in 1..Len(response[r].json) :
         LET a == response[r].json[k].stop_updates
             b == response[r].json[j].stop_updates
         IN /\ a = <<>>
            /\ Len(b) = 2
            /\ b[1].stop_name = PyStr("Main & 1st")
            /\ b[2].stop_id = "S9" /\ b[2].stop_name = PyStr("")

\* The continuation of a call has just run on an answer.
Settled(poll) == poll.kind \in {"fulfilled", "rejected"}

\* The record of the array that was written last for an id.
LastRecordOf(data, id) ==
  data[CHOOSE k \in 1..Len(data) :
         data[k].id = id /\ \A j \in (k + 1)..Len(data) : data[j].id # id]

IdsIn(data) == { data[k].id : k \in 1..Len(data) }

\* Every id keeps the marker it has, and the marker stays on the map.
MarkersKept ==
  \A id \in DOMAIN vehicleMarkers :
    /\ id \in DOMAIN vehicleMarkers'
    /\ vehicleMarkers'[id] = vehicleMarkers[id]
    /\ vehicleMarkers[id] \in onMap'

\* After a poll answered with an array, the marker of every id of the array
\* stands where the array's record for the id says.
MarkersMoved(ids) ==
  (Settled(lastPoll') /\ IsJsonArray(lastPoll'.resp)) =>
    \A id \in (DOMAIN vehicleMarkers' \cap IdsIn(lastPoll'.resp.json)) \cap ids :
      LET v == LastRecordOf(lastPoll'.resp.json, id)
      IN latlng'[vehicleMarkers'[id]] = <<v.lat, v.lon>>

\* C2: over any sequence of successful polls, an id that has a marker keeps
\* that marker for ever, and after every poll whose response contains the
\* id the marker's position is that of the poll's record.
C2_MarkerKeptAndLastWriteWins ==
  [][MarkersKept /\ MarkersMoved(VehicleIds)]_vars

\* The same for the polls whose arrays hold no id that names a property of
\* Object.prototype.
MarkerKeptAndLastWriteWinsOwnIds ==
  [][MarkersKept /\
       (IdsIn(lastPoll'.resp.json) \cap ObjectPrototype = {} => MarkersMoved(VehicleIds))]_vars

\* An error answer, or an empty array.
NothingToShow(resp) == resp.status >= 500 \/ (IsJsonArray(resp) /\ resp.json = <<>>)

\* C10: a poll answered with an error status leaves the markers and their
\* positions as they are, and so does a poll answered with an empty array;
\* the interval keeps issuing polls and their answers keep being applied.
C10_ErrorOrEmptyPollKeepsMarkers ==
  /\ [][(Settled(lastPoll') /\ NothingToShow(lastPoll'.resp)) =>
          UNCHANGED <<vehicleMarkers, latlng, onMap, issued>>]_vars
  /\ [](/\ issued < MaxPolls => ENABLED updateVehicles_call
        /\ inflight > 0 => ENABLED updateVehicles_resume)

\* A marker is on the map, a poll has failed, and the last poll, answered
\* with an empty array, has been applied.
C10_Witness ==
  /\ failed >= 1
  /\ DOMAIN vehicleMarkers # {}
  /\ lastPoll.kind = "fulfilled" /\ lastPoll.resp.json = <<>>

====
